---- MODULE Spec2Model ----
(***************************************************************************)
(* Model of AssetService.ts: the handlers handleGetAssetConsumption,       *)
(* handleCheckAssetConnection, handleRetrieveConsumption,                  *)
(* handleCreateAsset, handleUpdateAsset and handleDeleteAsset, run as      *)
(* concurrent requests against one asset store.  Every handler is an       *)
(* async function: a request advances from one awaited call to the next,   *)
(* and the requests of the other slots may run in between.  A step of a    *)
(* request runs the code from the return of one awaited call up to the     *)
(* call of the next; a store call reads or writes the store when it is     *)
(* made.                                                                   *)
(***************************************************************************)
EXTENDS Integers, Sequences, FiniteSets, TLC

\* db: the stored asset documents by id; lastID: the number of ids the store
\* has handed out; req: the requests in flight, one per slot
VARIABLES db, lastID, req

vars == <<db, lastID, req>>

(* ---------------- bounds ---------------- *)

\* number of request slots: requests in flight at the same time
MaxRequests == 2
\* number of distinct samples a connector can produce
NumSamples == 2
\* longest sequence retrieveConsumptions returns
MaxSamples == 2
\* latest instant a date of a historical query can name
MaxDate == 1
\* number of assets the store gives an id to
MaxAssets == 1

Reqs == 1..MaxRequests
SampleIDs == 1..NumSamples
Times == 0..MaxDate

(* ---------------- values ---------------- *)

\* null / undefined of an object-typed value
Null == [isNull |-> TRUE]
\* null of a string-typed field
NullValue == "null"
\* the id of a request that names none
NoID == ""

\* the id the store gives to the n-th asset it inserts
NewID(n) == "A" \o ToString(n)
AssetIDs == {NewID(n) : n \in 1..MaxAssets}
\* the ids a request can name: a stored asset, an id no asset has, none
RequestIDs == AssetIDs \cup {"A9", NoID}
ConnectionRefs == {"meter-7", "unknown"}

AbsentDate == [present |-> FALSE]
DateAt(t) == [present |-> TRUE, time |-> t]
RequestDates == {AbsentDate} \cup {DateAt(t) : t \in Times}

LiveFields ==
    {"lastConsumption", "currentConsumptionWh",
     "currentInstantAmps", "currentInstantAmpsL1", "currentInstantAmpsL2", "currentInstantAmpsL3",
     "currentInstantVolts", "currentInstantVoltsL1", "currentInstantVoltsL2", "currentInstantVoltsL3",
     "currentInstantWatts", "currentInstantWattsL1", "currentInstantWattsL2", "currentInstantWattsL3",
     "currentStateOfCharge"}

\* the k-th sample a connector can produce: every field has a value that
\* names both the sample and the field
Sample(k) ==
    [lastConsumption       |-> 16 * k,
     currentConsumptionWh  |-> 16 * k + 1,
     currentInstantAmps    |-> 16 * k + 2,
     currentInstantAmpsL1  |-> 16 * k + 3,
     currentInstantAmpsL2  |-> 16 * k + 4,
     currentInstantAmpsL3  |-> 16 * k + 5,
     currentInstantVolts   |-> 16 * k + 6,
     currentInstantVoltsL1 |-> 16 * k + 7,
     currentInstantVoltsL2 |-> 16 * k + 8,
     currentInstantVoltsL3 |-> 16 * k + 9,
     currentInstantWatts   |-> 16 * k + 10,
     currentInstantWattsL1 |-> 16 * k + 11,
     currentInstantWattsL2 |-> 16 * k + 12,
     currentInstantWattsL3 |-> 16 * k + 13,
     currentStateOfCharge  |-> 16 * k + 14]

Samples == {Sample(k) : k \in SampleIDs}

\* the live-state group of an asset that was never merged: a new asset has
\* none of the live-state fields
InitialLive == [f \in {} |-> 0]

RECURSIVE SeqsUpTo(_, _)
SeqsUpTo(S, n) ==
    IF n = 0 THEN {<<>>}
    ELSE LET shorter == SeqsUpTo(S, n - 1)
         IN shorter \cup {Append(q, x) : q \in {p \in shorter : Len(p) = n - 1}, x \in S}

SampleSeqs == SeqsUpTo(Samples, MaxSamples)

Range(q) == {q[i] : i \in DOMAIN q}

\* the restriction of a record to some of its fields
Restrict(rec, fields) == [f \in (DOMAIN rec) \cap fields |-> rec[f]]
LiveOf(a) == Restrict(a, LiveFields)
NonLiveOf(a) == Restrict(a, (DOMAIN a) \ LiveFields)

(* ---------------- errors and responses ---------------- *)

NoError == [type |-> "none"]
AppError(errorCode, message) ==
    [type |-> "AppError", errorCode |-> errorCode, message |-> message]
AppAuthError == [type |-> "AppAuthError", errorCode |-> "FORBIDDEN"]

ComponentInactive == AppError("COMPONENT_INACTIVE", "Component is inactive")
IdNotProvided == AppError("GENERAL_ERROR", "The ID must be provided")
ObjectDoesNotExist == AppError("OBJECT_DOES_NOT_EXIST_ERROR", "does not exist")
NotDynamic ==
    AppError("GENERAL_ERROR", "This Asset is not dynamic, no consumption can be retrieved")
NotConfigured == AppError("GENERAL_ERROR", "Asset service is not configured")
DatesMissing == AppError("GENERAL_ERROR", "Start date and end date must be provided")
StartAfterEnd ==
    AppError("GENERAL_ERROR", "The requested start date is after the end date")
AssetInvalid == AppError("GENERAL_ERROR", "Asset is not valid")
\* what a connector throws when the external system fails
ConnectionFailure == [type |-> "Error", message |-> "connection failure"]
\* what reading a property of null or undefined throws
TypeError == [type |-> "TypeError", message |-> "Cannot read property 'message'"]
\* what Logging.logError throws when the log cannot be written
LoggingFailure == [type |-> "Error", message |-> "log not saved"]

NoResponse == [sent |-> FALSE]
REST_RESPONSE_SUCCESS == [sent |-> TRUE, status |-> "Success"]
ConnectionResponse(valid) ==
    [sent |-> TRUE, status |-> "Success", connectionIsValid |-> valid]

\* Object.assign({ id: newAsset.id }, Constants.REST_RESPONSE_SUCCESS)
CreatedResponse(id) == [sent |-> TRUE, status |-> "Success", id |-> id]

(* ---------------- collaborators ---------------- *)

\* the store with no asset
EmptyStore == [id \in {} |-> Null]

\* AssetStorage.getAsset: the stored asset, or null
getAsset(store, id) == IF id \in DOMAIN store THEN store[id] ELSE Null

\* AssetStorage.getAsset with the projection [ 'id', 'name' ]
getAssetProjected(store, id) ==
    IF id \in DOMAIN store THEN Restrict(store[id], {"id", "name"}) ELSE Null

\* the id AssetStorage.saveAsset returns: the id of the asset, or, for an
\* asset that has none, the id the store gives it
SavedID(asset, freshID) == IF "id" \in DOMAIN asset THEN asset.id ELSE freshID

\* AssetStorage.saveAsset: upsert of the whole asset document under its id
saveAsset(store, asset, freshID) ==
    LET id == SavedID(asset, freshID)
        document == [id |-> id] @@ asset
    IN [i \in (DOMAIN store) \cup {id} |-> IF i = id THEN document ELSE store[i]]

\* AssetStorage.deleteAsset
deleteAsset(store, id) == [i \in (DOMAIN store) \ {id} |-> store[i]]

\* AssetFactory.getAssetImpl: the connector of a connection, or null
getAssetImpl(connectionRef) ==
    IF connectionRef = "meter-7" THEN [connectionID |-> connectionRef] ELSE Null

\* SiteAreaStorage.getSiteArea
getSiteArea(siteAreaID) ==
    IF siteAreaID \in {"sa0", "sa1"}
    THEN [id |-> siteAreaID, siteID |-> IF siteAreaID = "sa0" THEN "s0" ELSE "s1"]
    ELSE Null

\* the outcomes of assetImpl.retrieveConsumptions(asset, true)
RetrieveOutcomes ==
    {[threw |-> TRUE, error |-> ConnectionFailure]}
        \cup {[threw |-> FALSE, value |-> q] : q \in SampleSeqs}

\* the outcomes of assetImpl.checkConnection(): it returns, or it throws an
\* Error object, or it rejects with no reason at all
ProbeOutcomes ==
    {[threw |-> FALSE],
     [threw |-> TRUE, error |-> ConnectionFailure],
     [threw |-> TRUE, error |-> Null]}

\* the outcomes of Logging.logError and of Logging.logSecurityInfo
LogOutcomes == {[threw |-> FALSE], [threw |-> TRUE, error |-> LoggingFailure]}

\* ConsumptionStorage.getAssetConsumptions: the stored consumptions of the
\* asset that started in the range, ascending by startedAt
getAssetConsumptions(assetID, startDate, endDate) ==
    LET stored == [t \in 1..(MaxDate + 1) |->
                      [startedAt |-> t - 1, endedAt |-> t, instantWatts |-> 100 + t]]
    IN SelectSeq(stored, LAMBDA c : startDate.time <= c.startedAt /\ c.startedAt <= endDate.time)

(* ---------------- a request ---------------- *)

IdleReq ==
    [kind |-> "none", pc |-> "idle", id |-> NoID, authorized |-> FALSE,
     body |-> Null, siteArea |-> Null, startDate |-> AbsentDate, endDate |-> AbsentDate,
     asset |-> Null, loaded |-> Null, saved |-> Null, stored |-> Null,
     assetImpl |-> Null, retrievedAfter |-> {},
     consumptions |-> <<>>, response |-> NoResponse, error |-> NoError, calls |-> <<>>]

NewReq(kind, id, authorized) ==
    [IdleReq EXCEPT !.kind = kind, !.id = id, !.authorized = authorized]

\* the handler throws: the request ends with the error and sends no response
Throw(s, error) == [s EXCEPT !.pc = "done", !.error = error]

\* res.json(...); next()
Respond(s, response) == [s EXCEPT !.pc = "done", !.response = response]

\* calls is the trace of the request: the collaborator calls it made, in
\* order, and, after a call that threw, the mark of the throw
Called(s, call) == [s EXCEPT !.calls = Append(@, call)]
ThrewMark(call) == call \o "!threw"
Returned(s, call, outcome) ==
    IF outcome.threw THEN [s EXCEPT !.calls = Append(@, ThrewMark(call))] ELSE s

\* loaded is what getAsset returned, saved what was handed to saveAsset, and
\* stored the stored asset right after the request's saveAsset
Saved(s, asset, storeAfter) ==
    [Called(s, "saveAsset") EXCEPT
        !.asset = asset, !.saved = asset, !.stored = getAsset(storeAfter, asset.id)]

\* retrievedAfter of a retrieval: the requests that, when it called its
\* connector, had called theirs for the same asset and waited for the answer
RetrievedBefore(r, id) ==
    {q \in Reqs \ {r} : req[q].pc = "rc_waiting" /\ req[q].id = id}
Retrieved(r, s) ==
    IF s.pc = "rc_waiting" THEN [s EXCEPT !.retrievedAfter = RetrievedBefore(r, s.id)]
    ELSE s

HasCalled(s, call) == call \in Range(s.calls)
CountCalls(s, call) == Cardinality({i \in DOMAIN s.calls : s.calls[i] = call})

\* no asset is stored and no request is in flight
Init ==
    /\ db = EmptyStore
    /\ lastID = 0
    /\ req = [r \in Reqs |-> IdleReq]

\* a new request takes the lowest free slot
CanStart(r) ==
    /\ req[r].pc = "idle"
    /\ \A q \in Reqs : q < r => req[q].pc # "idle"

\* await Logging.logSecurityInfo(...); res.json(...); next(): what the log
\* call throws leaves the handler
AwaitLogSecurityInfo(s, outcome, response) ==
    IF outcome.threw THEN Throw(s, outcome.error) ELSE Respond(s, response)

(* ---------------- handleRetrieveConsumption ---------------- *)

\* the checks before the asset is read: component, authorization, id
RetrievePreChecks(active, authorized, id) ==
    IF ~active THEN ComponentInactive
    ELSE IF ~authorized THEN AppAuthError
    ELSE IF id = NoID THEN IdNotProvided
    ELSE NoError

\* UtilsService.assertObjectExists
assertObjectExists(object) == IF object = Null THEN ObjectDoesNotExist ELSE NoError

\* the dynamic check left out
CheckDynamic_Skipped(asset) == NoError

\* if (!asset.dynamicAsset) throw
CheckDynamic(asset) == IF ~asset.dynamicAsset THEN NotDynamic ELSE NoError

\* if (!assetImpl) throw, in handleRetrieveConsumption
CheckRetrieveImpl(assetImpl) == IF assetImpl = Null THEN NotConfigured ELSE NoError

\* the request once getAsset has returned: the existence and dynamic checks,
\* then the call of AssetFactory.getAssetImpl
RetrieveResolve(s) ==
    IF assertObjectExists(s.asset) # NoError THEN Throw(s, assertObjectExists(s.asset))
    ELSE IF CheckDynamic(s.asset) # NoError THEN Throw(s, CheckDynamic(s.asset))
    ELSE [Called(s, "getAssetImpl") EXCEPT
             !.pc = "rc_impl", !.assetImpl = getAssetImpl(s.asset.connectionID)]

\* the failure of the connector caught and taken for "no consumption"
AwaitRetrieve_Swallowed(s, outcome) ==
    [s EXCEPT !.pc = "rc_retrieved",
              !.consumptions = IF outcome.threw THEN <<>> ELSE outcome.value]

\* await assetImpl.retrieveConsumptions(asset, true): no try block encloses
\* the call, so what the connector throws leaves the handler; else the
\* handler holds the consumptions (rc_retrieved) and goes on to the merge
AwaitRetrieve(s, outcome) ==
    IF outcome.threw THEN Throw(s, outcome.error)
    ELSE [s EXCEPT !.pc = "rc_retrieved", !.consumptions = outcome.value]

\* Utils.isEmptyArray
isEmptyArray(array) == Len(array) = 0

\* the last sample taken in place of the first
FirstConsumption_Last(consumptions) == consumptions[Len(consumptions)]

\* const consumption = consumptions[0]
FirstConsumption(consumptions) == consumptions[1]

\* the asset saved whatever was retrieved
NeedsSave_Always(consumptions) == TRUE

\* the two conditions under which the asset is merged and saved
NeedsSave(consumptions) ==
    /\ ~isEmptyArray(consumptions)
    /\ FirstConsumption(consumptions) # Null

\* the merge with one assignment forgotten
Merge_SkipsStateOfCharge(asset, consumption) ==
    [lastConsumption       |-> consumption.lastConsumption,
     currentConsumptionWh  |-> consumption.currentConsumptionWh,
     currentInstantAmps    |-> consumption.currentInstantAmps,
     currentInstantAmpsL1  |-> consumption.currentInstantAmpsL1,
     currentInstantAmpsL2  |-> consumption.currentInstantAmpsL2,
     currentInstantAmpsL3  |-> consumption.currentInstantAmpsL3,
     currentInstantVolts   |-> consumption.currentInstantVolts,
     currentInstantVoltsL1 |-> consumption.currentInstantVoltsL1,
     currentInstantVoltsL2 |-> consumption.currentInstantVoltsL2,
     currentInstantVoltsL3 |-> consumption.currentInstantVoltsL3,
     currentInstantWatts   |-> consumption.currentInstantWatts,
     currentInstantWattsL1 |-> consumption.currentInstantWattsL1,
     currentInstantWattsL2 |-> consumption.currentInstantWattsL2,
     currentInstantWattsL3 |-> consumption.currentInstantWattsL3] @@ asset

\* the merge that also stamps the audit fields, as the update does
Merge_StampsAudit(asset, consumption) ==
    [currentStateOfCharge |-> consumption.currentStateOfCharge,
     lastChangedBy |-> "U1",
     lastChangedOn |-> "now"] @@ Merge_SkipsStateOfCharge(asset, consumption)

\* the fifteen assignments of the merge: each sets the field of the asset,
\* and creates it when the asset has none
Merge(asset, consumption) ==
    [lastConsumption       |-> consumption.lastConsumption,
     currentConsumptionWh  |-> consumption.currentConsumptionWh,
     currentInstantAmps    |-> consumption.currentInstantAmps,
     currentInstantAmpsL1  |-> consumption.currentInstantAmpsL1,
     currentInstantAmpsL2  |-> consumption.currentInstantAmpsL2,
     currentInstantAmpsL3  |-> consumption.currentInstantAmpsL3,
     currentInstantVolts   |-> consumption.currentInstantVolts,
     currentInstantVoltsL1 |-> consumption.currentInstantVoltsL1,
     currentInstantVoltsL2 |-> consumption.currentInstantVoltsL2,
     currentInstantVoltsL3 |-> consumption.currentInstantVoltsL3,
     currentInstantWatts   |-> consumption.currentInstantWatts,
     currentInstantWattsL1 |-> consumption.currentInstantWattsL1,
     currentInstantWattsL2 |-> consumption.currentInstantWattsL2,
     currentInstantWattsL3 |-> consumption.currentInstantWattsL3,
     currentStateOfCharge  |-> consumption.currentStateOfCharge] @@ asset

\* the asset the handler holds once the consumptions were looked at
MergedAsset(asset, consumptions) ==
    IF ~isEmptyArray(consumptions) /\ FirstConsumption(consumptions) # Null
    THEN Merge(asset, FirstConsumption(consumptions))
    ELSE asset

\* the request starts: the checks, then AssetStorage.getAsset
handleRetrieveConsumption_Start(r) ==
    /\ CanStart(r)
    /\ \E active \in BOOLEAN, authorized \in BOOLEAN, id \in RequestIDs :
          LET s == NewReq("RC", id, authorized)
              error == RetrievePreChecks(active, authorized, id)
              asset == getAsset(db, id)
          IN req' = [req EXCEPT ![r] =
                        IF error # NoError THEN Throw(s, error)
                        ELSE [Called(s, "getAsset") EXCEPT
                                 !.pc = "rc_got", !.asset = asset, !.loaded = asset]]
    /\ UNCHANGED <<db, lastID>>

\* getAsset has returned: the checks, then AssetFactory.getAssetImpl
handleRetrieveConsumption_Resolve(r) ==
    /\ req[r].pc = "rc_got"
    /\ req' = [req EXCEPT ![r] = RetrieveResolve(req[r])]
    /\ UNCHANGED <<db, lastID>>

\* getAssetImpl has returned: the check, then the connector is called and
\* the handler waits for its answer
handleRetrieveConsumption_Retrieve(r) ==
    /\ req[r].pc = "rc_impl"
    /\ req' = [req EXCEPT ![r] =
                  IF CheckRetrieveImpl(req[r].assetImpl) # NoError
                  THEN Throw(req[r], CheckRetrieveImpl(req[r].assetImpl))
                  ELSE Retrieved(r, [Called(req[r], "retrieveConsumptions") EXCEPT
                                        !.pc = "rc_waiting"])]
    /\ UNCHANGED <<db, lastID>>

\* the save of the merged asset only when the stored asset is still the one
\* the request loaded
PersistMerged_VersionChecked(store, loaded, asset) ==
    IF getAsset(store, asset.id) = loaded THEN saveAsset(store, asset, NoID) ELSE store

\* await AssetStorage.saveAsset(req.user.tenantID, asset): the asset is saved
\* whatever the store holds by now; what the request loaded plays no part.
\* The asset has its id, so the store gives none.
PersistMerged(store, loaded, asset) == saveAsset(store, asset, NoID)

\* the connector answers: retrieveConsumptions returns the samples or throws,
\* and the handler goes on in the same turn: it throws what the connector
\* threw, or it merges the first sample and calls AssetStorage.saveAsset, or,
\* with nothing to merge, it sends the response.  So the retrievals save in
\* the order in which their connectors answer.  The await has no timeout:
\* until the connector answers the request waits.
handleRetrieveConsumption_Answer(r) ==
    /\ req[r].pc = "rc_waiting"
    /\ \E outcome \in RetrieveOutcomes :
          LET s == AwaitRetrieve(
                       Returned(req[r], "retrieveConsumptions", outcome), outcome)
              asset == MergedAsset(s.asset, s.consumptions)
          IN IF s.pc = "done"
             THEN /\ req' = [req EXCEPT ![r] = s]
                  /\ UNCHANGED db
             ELSE IF NeedsSave(s.consumptions)
             THEN /\ db' = PersistMerged(db, s.loaded, asset)
                  /\ req' = [req EXCEPT ![r] =
                                [Saved(s, asset, db') EXCEPT !.pc = "rc_saved"]]
             ELSE /\ req' = [req EXCEPT ![r] = Respond(s, REST_RESPONSE_SUCCESS)]
                  /\ UNCHANGED db
    /\ UNCHANGED lastID

\* saveAsset has returned: res.json(Constants.REST_RESPONSE_SUCCESS)
handleRetrieveConsumption_Respond(r) ==
    /\ req[r].pc = "rc_saved"
    /\ req' = [req EXCEPT ![r] = Respond(req[r], REST_RESPONSE_SUCCESS)]
    /\ UNCHANGED <<db, lastID>>

(* ---------------- handleCheckAssetConnection ---------------- *)

\* the check of the connector left out
CheckConnectionImpl_Skipped(assetImpl) == NoError

\* if (!assetImpl) throw, in handleCheckAssetConnection
CheckConnectionImpl(assetImpl) == IF assetImpl = Null THEN NotConfigured ELSE NoError

\* the catch block up to its awaited call: the argument of Logging.logError
\* reads error.message and error.stack, which throws when what was caught is
\* null or undefined; nothing encloses the catch block
CatchProbeError(s, error) ==
    IF error = Null THEN Throw(s, TypeError)
    ELSE [Called(s, "logError") EXCEPT !.pc = "cc_logging"]

\* try { await assetImpl.checkConnection(); res.json(...) } catch (error) {...}
AwaitCheckConnection(s, outcome) ==
    IF outcome.threw THEN CatchProbeError(s, outcome.error)
    ELSE Respond(s, ConnectionResponse(TRUE))

\* await Logging.logError(...) inside the catch block, then the fail response
AwaitLogError(s, outcome) ==
    IF outcome.threw THEN Throw(s, outcome.error)
    ELSE Respond(s, ConnectionResponse(FALSE))

\* the request starts: the component check, then AssetFactory.getAssetImpl
handleCheckAssetConnection_Start(r) ==
    /\ CanStart(r)
    /\ \E active \in BOOLEAN, authorized \in BOOLEAN, ref \in ConnectionRefs :
          LET s == NewReq("CC", ref, authorized)
          IN req' = [req EXCEPT ![r] =
                        IF ~active THEN Throw(s, ComponentInactive)
                        ELSE [Called(s, "getAssetImpl") EXCEPT
                                 !.pc = "cc_impl", !.assetImpl = getAssetImpl(ref)]]
    /\ UNCHANGED <<db, lastID>>

\* getAssetImpl has returned: the two checks, then the probe is called and
\* the handler waits for its answer
handleCheckAssetConnection_Check(r) ==
    /\ req[r].pc = "cc_impl"
    /\ LET s == req[r]
       IN req' = [req EXCEPT ![r] =
                     IF CheckConnectionImpl(s.assetImpl) # NoError
                     THEN Throw(s, CheckConnectionImpl(s.assetImpl))
                     ELSE IF ~s.authorized THEN Throw(s, AppAuthError)
                     ELSE [Called(s, "checkConnection") EXCEPT !.pc = "cc_waiting"]]
    /\ UNCHANGED <<db, lastID>>

\* the probe answers: checkConnection returns, and the success response is
\* sent, or it throws, and the catch block runs up to Logging.logError.  The
\* await has no timeout: until the probe answers the request waits.
handleCheckAssetConnection_Answer(r) ==
    /\ req[r].pc = "cc_waiting"
    /\ \E outcome \in ProbeOutcomes :
          req' = [req EXCEPT ![r] =
                     AwaitCheckConnection(
                         Returned(req[r], "checkConnection", outcome), outcome)]
    /\ UNCHANGED <<db, lastID>>

\* Logging.logError has returned or thrown
handleCheckAssetConnection_Logged(r) ==
    /\ req[r].pc = "cc_logging"
    /\ \E outcome \in LogOutcomes :
          req' = [req EXCEPT ![r] =
                     AwaitLogError(Returned(req[r], "logError", outcome), outcome)]
    /\ UNCHANGED <<db, lastID>>

(* ---------------- handleGetAssetConsumption ---------------- *)

\* the checks before the asset is read: component, id, authorization
ConsumptionPreChecks(active, authorized, id) ==
    IF ~active THEN ComponentInactive
    ELSE IF id = NoID THEN IdNotProvided
    ELSE IF ~authorized THEN AppAuthError
    ELSE NoError

\* the comparison of the dates the wrong way round
isAfter_Reversed(a, b) == a.time < b.time

\* moment(a).isAfter(moment(b))
isAfter(a, b) == a.time > b.time

\* the two checks of the dates, in the order of the code
CheckDates(startDate, endDate) ==
    IF ~startDate.present \/ ~endDate.present THEN DatesMissing
    ELSE IF startDate.present /\ endDate.present /\ isAfter(startDate, endDate)
    THEN StartAfterEnd
    ELSE NoError

\* the request once getAsset has returned: existence, dates, then the call of
\* ConsumptionStorage.getAssetConsumptions
ConsumptionQuery(s) ==
    IF assertObjectExists(s.asset) # NoError THEN Throw(s, assertObjectExists(s.asset))
    ELSE IF CheckDates(s.startDate, s.endDate) # NoError
    THEN Throw(s, CheckDates(s.startDate, s.endDate))
    ELSE [Called(s, "getAssetConsumptions") EXCEPT
             !.pc = "gac_queried",
             !.consumptions = getAssetConsumptions(s.id, s.startDate, s.endDate)]

\* the request starts: the checks, then AssetStorage.getAsset
handleGetAssetConsumption_Start(r) ==
    /\ CanStart(r)
    /\ \E active \in BOOLEAN, authorized \in BOOLEAN, id \in RequestIDs,
          startDate \in RequestDates, endDate \in RequestDates :
          LET s == [NewReq("GAC", id, authorized) EXCEPT
                       !.startDate = startDate, !.endDate = endDate]
              error == ConsumptionPreChecks(active, authorized, id)
          IN req' = [req EXCEPT ![r] =
                        IF error # NoError THEN Throw(s, error)
                        ELSE [Called(s, "getAsset") EXCEPT
                                 !.pc = "gac_got", !.asset = getAssetProjected(db, id)]]
    /\ UNCHANGED <<db, lastID>>

\* getAsset has returned: the validations, then the store is queried
handleGetAssetConsumption_Query(r) ==
    /\ req[r].pc = "gac_got"
    /\ req' = [req EXCEPT ![r] = ConsumptionQuery(req[r])]
    /\ UNCHANGED <<db, lastID>>

\* the store has answered: asset.values = consumptions; res.json(asset)
handleGetAssetConsumption_Respond(r) ==
    /\ req[r].pc = "gac_queried"
    /\ req' = [req EXCEPT ![r] =
                  Respond(req[r], [sent |-> TRUE,
                                   asset |-> req[r].asset @@ [values |-> req[r].consumptions]])]
    /\ UNCHANGED <<db, lastID>>

(* ---------------- handleCreateAsset ---------------- *)

\* the filtered bodies of the create requests
CreateBody(name, siteAreaID, dynamic, connection) ==
    [name |-> name, siteAreaID |-> siteAreaID, assetType |-> "CO",
     excludeFromSmartCharging |-> FALSE, fluctuationPercent |-> "f0",
     staticValueWatt |-> "w0", coordinates |-> "c0", image |-> "img0",
     dynamicAsset |-> dynamic, connectionID |-> connection, meterID |-> "m0"]

CreateBodies ==
    {CreateBody("n0", "sa0", TRUE, "meter-7"),
     CreateBody("n0", "sa0", TRUE, "unknown"),
     CreateBody("n0", NullValue, FALSE, NullValue),
     CreateBody("n0", "sa9", TRUE, "meter-7")}

\* const newAsset: Asset = {...}: the fields of the body, the site of the
\* site area and the audit fields of the creation; no id, no live-state
\* field and no lastChangedBy / lastChangedOn
NewAsset(body, siteArea) ==
    [name |-> body.name,
     siteAreaID |-> body.siteAreaID,
     siteID |-> IF siteArea # Null THEN siteArea.siteID ELSE NullValue,
     assetType |-> body.assetType,
     excludeFromSmartCharging |-> body.excludeFromSmartCharging,
     fluctuationPercent |-> body.fluctuationPercent,
     staticValueWatt |-> body.staticValueWatt,
     coordinates |-> body.coordinates,
     image |-> body.image,
     dynamicAsset |-> body.dynamicAsset,
     connectionID |-> body.connectionID,
     meterID |-> body.meterID,
     createdBy |-> "U0",
     createdOn |-> "t0"]

\* the checks before the site area is read: component, authorization,
\* UtilsService.checkIfAssetValid (which accepts the body or throws)
CreatePreChecks(active, authorized, valid) ==
    IF ~active THEN ComponentInactive
    ELSE IF ~authorized THEN AppAuthError
    ELSE IF ~valid THEN AssetInvalid
    ELSE NoError

\* the store has an id left for every creation that is on its way to
\* saveAsset and for one more
CanAllocate ==
    lastID + Cardinality({q \in Reqs : req[q].pc = "ca_site"}) < MaxAssets

\* the id the store gives to the next asset it inserts
FreshID == NewID(lastID + 1)

\* the new asset is built and handed to AssetStorage.saveAsset, which stores
\* it under a fresh id
CreateSave(r, s, siteArea) ==
    LET newAsset == NewAsset(s.body, siteArea)
    IN /\ db' = saveAsset(db, newAsset, FreshID)
       /\ lastID' = lastID + 1
       /\ req' = [req EXCEPT ![r] =
                     [Called(s, "saveAsset") EXCEPT
                         !.pc = "ca_saved", !.siteArea = siteArea,
                         !.asset = newAsset, !.saved = newAsset,
                         !.stored = getAsset(db', SavedID(newAsset, FreshID))]]

\* the request starts: the checks, then SiteAreaStorage.getSiteArea when the
\* body names a site area, and else the new asset and AssetStorage.saveAsset
handleCreateAsset_Start(r) ==
    /\ CanStart(r)
    /\ \E active \in BOOLEAN, authorized \in BOOLEAN, valid \in BOOLEAN,
          body \in CreateBodies :
          LET s == [NewReq("CA", NoID, authorized) EXCEPT !.body = body]
              error == CreatePreChecks(active, authorized, valid)
          IN IF error # NoError
             THEN /\ req' = [req EXCEPT ![r] = Throw(s, error)]
                  /\ UNCHANGED <<db, lastID>>
             ELSE /\ CanAllocate
                  /\ IF body.siteAreaID # NullValue
                     THEN /\ req' = [req EXCEPT ![r] =
                                        [Called(s, "getSiteArea") EXCEPT !.pc = "ca_site"]]
                          /\ UNCHANGED <<db, lastID>>
                     ELSE CreateSave(r, s, Null)

\* getSiteArea has returned: the site area must exist, then the new asset
\* and AssetStorage.saveAsset
handleCreateAsset_Save(r) ==
    /\ req[r].pc = "ca_site"
    /\ LET s == req[r]
           siteArea == getSiteArea(s.body.siteAreaID)
       IN IF assertObjectExists(siteArea) # NoError
          THEN /\ req' = [req EXCEPT ![r] = Throw(s, assertObjectExists(siteArea))]
               /\ UNCHANGED <<db, lastID>>
          ELSE CreateSave(r, s, siteArea)

\* saveAsset has returned the id: newAsset.id = ..., then
\* Logging.logSecurityInfo
handleCreateAsset_Log(r) ==
    /\ req[r].pc = "ca_saved"
    /\ req' = [req EXCEPT ![r] =
                  [Called(req[r], "logSecurityInfo") EXCEPT
                      !.pc = "ca_logging",
                      !.id = req[r].stored.id,
                      !.asset = [id |-> req[r].stored.id] @@ req[r].asset]]
    /\ UNCHANGED <<db, lastID>>

\* logSecurityInfo has returned or thrown: the response with the id
handleCreateAsset_Logged(r) ==
    /\ req[r].pc = "ca_logging"
    /\ \E outcome \in LogOutcomes :
          req' = [req EXCEPT ![r] =
                     AwaitLogSecurityInfo(
                         Returned(req[r], "logSecurityInfo", outcome), outcome,
                         CreatedResponse(req[r].asset.id))]
    /\ UNCHANGED <<db, lastID>>

(* ---------------- handleUpdateAsset ---------------- *)

\* the filtered bodies of the update requests
UpdateBody(id, name, siteAreaID, dynamic, connection) ==
    [id |-> id, name |-> name, siteAreaID |-> siteAreaID, assetType |-> "PR",
     excludeFromSmartCharging |-> TRUE, fluctuationPercent |-> "f1",
     staticValueWatt |-> "w1", coordinates |-> "c1", image |-> "img1",
     dynamicAsset |-> dynamic, connectionID |-> connection, meterID |-> "m1"]

UpdateBodies ==
    {UpdateBody("A1", "n1", "sa1", TRUE, "meter-7"),
     UpdateBody("A1", "n2", NullValue, FALSE, NullValue),
     UpdateBody("A1", "n3", "sa9", TRUE, "meter-7"),
     UpdateBody("A9", "n4", NullValue, TRUE, "meter-7")}

\* the assignments of the update: the descriptive fields and the audit
\* fields; each sets the field of the asset, and creates it when the asset
\* has none
ApplyUpdate(asset, body, siteArea) ==
    [name |-> body.name,
     siteAreaID |-> body.siteAreaID,
     siteID |-> IF siteArea # Null THEN siteArea.siteID ELSE NullValue,
     assetType |-> body.assetType,
     excludeFromSmartCharging |-> body.excludeFromSmartCharging,
     fluctuationPercent |-> body.fluctuationPercent,
     staticValueWatt |-> body.staticValueWatt,
     coordinates |-> body.coordinates,
     image |-> body.image,
     dynamicAsset |-> body.dynamicAsset,
     connectionID |-> body.connectionID,
     meterID |-> body.meterID,
     lastChangedBy |-> "U1",
     lastChangedOn |-> "now"] @@ asset

\* the checks before the site area is read: component, authorization
UpdatePreChecks(active, authorized) ==
    IF ~active THEN ComponentInactive
    ELSE IF ~authorized THEN AppAuthError
    ELSE NoError

\* const asset = await AssetStorage.getAsset(req.user.tenantID, filteredRequest.id)
UpdateRead(s, store) ==
    [Called(s, "getAsset") EXCEPT
        !.pc = "ua_got", !.asset = getAsset(store, s.id), !.loaded = getAsset(store, s.id)]

\* the request starts: the checks, then SiteAreaStorage.getSiteArea when the
\* body names a site area, and else AssetStorage.getAsset
handleUpdateAsset_Start(r) ==
    /\ CanStart(r)
    /\ \E active \in BOOLEAN, authorized \in BOOLEAN, body \in UpdateBodies :
          LET s == [NewReq("UA", body.id, authorized) EXCEPT !.body = body]
              error == UpdatePreChecks(active, authorized)
          IN req' = [req EXCEPT ![r] =
                        IF error # NoError THEN Throw(s, error)
                        ELSE IF body.siteAreaID # NullValue
                        THEN [Called(s, "getSiteArea") EXCEPT !.pc = "ua_site"]
                        ELSE UpdateRead(s, db)]
    /\ UNCHANGED <<db, lastID>>

\* getSiteArea has returned: the site area must exist, then
\* AssetStorage.getAsset
handleUpdateAsset_Read(r) ==
    /\ req[r].pc = "ua_site"
    /\ LET s == req[r]
           siteArea == getSiteArea(s.body.siteAreaID)
       IN req' = [req EXCEPT ![r] =
                     IF assertObjectExists(siteArea) # NoError
                     THEN Throw(s, assertObjectExists(siteArea))
                     ELSE UpdateRead([s EXCEPT !.siteArea = siteArea], db)]
    /\ UNCHANGED <<db, lastID>>

\* getAsset has returned: existence, UtilsService.checkIfAssetValid (which
\* accepts the body or throws), the assignments, then AssetStorage.saveAsset
handleUpdateAsset_Save(r) ==
    /\ req[r].pc = "ua_got"
    /\ \E valid \in BOOLEAN :
          LET s == req[r]
              asset == ApplyUpdate(s.asset, s.body, s.siteArea)
          IN IF assertObjectExists(s.asset) # NoError
             THEN /\ req' = [req EXCEPT ![r] = Throw(s, assertObjectExists(s.asset))]
                  /\ UNCHANGED db
             ELSE IF ~valid
             THEN /\ req' = [req EXCEPT ![r] = Throw(s, AssetInvalid)]
                  /\ UNCHANGED db
             ELSE /\ db' = saveAsset(db, asset, NoID)
                  /\ req' = [req EXCEPT ![r] =
                                [Saved(s, asset, db') EXCEPT !.pc = "ua_saved"]]
    /\ UNCHANGED lastID

\* saveAsset has returned: Logging.logSecurityInfo is called
handleUpdateAsset_Log(r) ==
    /\ req[r].pc = "ua_saved"
    /\ req' = [req EXCEPT ![r] =
                  [Called(req[r], "logSecurityInfo") EXCEPT !.pc = "ua_logging"]]
    /\ UNCHANGED <<db, lastID>>

\* logSecurityInfo has returned or thrown: the response
handleUpdateAsset_Logged(r) ==
    /\ req[r].pc = "ua_logging"
    /\ \E outcome \in LogOutcomes :
          req' = [req EXCEPT ![r] =
                     AwaitLogSecurityInfo(
                         Returned(req[r], "logSecurityInfo", outcome), outcome,
                         REST_RESPONSE_SUCCESS)]
    /\ UNCHANGED <<db, lastID>>

(* ---------------- handleDeleteAsset ---------------- *)

\* the checks before the asset is read: component, id, authorization
DeletePreChecks(active, authorized, id) ==
    IF ~active THEN ComponentInactive
    ELSE IF id = NoID THEN IdNotProvided
    ELSE IF ~authorized THEN AppAuthError
    ELSE NoError

\* the request starts: the checks, then AssetStorage.getAsset
handleDeleteAsset_Start(r) ==
    /\ CanStart(r)
    /\ \E active \in BOOLEAN, authorized \in BOOLEAN, id \in RequestIDs :
          LET s == NewReq("DA", id, authorized)
              error == DeletePreChecks(active, authorized, id)
              asset == getAsset(db, id)
          IN req' = [req EXCEPT ![r] =
                        IF error # NoError THEN Throw(s, error)
                        ELSE [Called(s, "getAsset") EXCEPT
                                 !.pc = "da_got", !.asset = asset, !.loaded = asset]]
    /\ UNCHANGED <<db, lastID>>

\* getAsset has returned: the asset must exist, then AssetStorage.deleteAsset
handleDeleteAsset_Delete(r) ==
    /\ req[r].pc = "da_got"
    /\ LET s == req[r]
       IN IF assertObjectExists(s.asset) # NoError
          THEN /\ req' = [req EXCEPT ![r] = Throw(s, assertObjectExists(s.asset))]
               /\ UNCHANGED db
          ELSE /\ db' = deleteAsset(db, s.asset.id)
               /\ req' = [req EXCEPT ![r] =
                             [Called(s, "deleteAsset") EXCEPT !.pc = "da_deleted"]]
    /\ UNCHANGED lastID

\* deleteAsset has returned: Logging.logSecurityInfo is called
handleDeleteAsset_Log(r) ==
    /\ req[r].pc = "da_deleted"
    /\ req' = [req EXCEPT ![r] =
                  [Called(req[r], "logSecurityInfo") EXCEPT !.pc = "da_logging"]]
    /\ UNCHANGED <<db, lastID>>

\* logSecurityInfo has returned or thrown: the response
handleDeleteAsset_Logged(r) ==
    /\ req[r].pc = "da_logging"
    /\ \E outcome \in LogOutcomes :
          req' = [req EXCEPT ![r] =
                     AwaitLogSecurityInfo(
                         Returned(req[r], "logSecurityInfo", outcome), outcome,
                         REST_RESPONSE_SUCCESS)]
    /\ UNCHANGED <<db, lastID>>

(* ---------------- the system ---------------- *)

\* the request is over: its slot is free for the next request
Finish(r) ==
    /\ req[r].pc = "done"
    /\ req' = [q \in Reqs |->
                  IF q = r THEN IdleReq
                  ELSE [req[q] EXCEPT !.retrievedAfter = @ \ {r}]]
    /\ UNCHANGED <<db, lastID>>

Next ==
    \E r \in Reqs :
        \/ handleRetrieveConsumption_Start(r)
        \/ handleRetrieveConsumption_Resolve(r)
        \/ handleRetrieveConsumption_Retrieve(r)
        \/ handleRetrieveConsumption_Answer(r)
        \/ handleRetrieveConsumption_Respond(r)
        \/ handleCheckAssetConnection_Start(r)
        \/ handleCheckAssetConnection_Check(r)
        \/ handleCheckAssetConnection_Answer(r)
        \/ handleCheckAssetConnection_Logged(r)
        \/ handleGetAssetConsumption_Start(r)
        \/ handleGetAssetConsumption_Query(r)
        \/ handleGetAssetConsumption_Respond(r)
        \/ handleCreateAsset_Start(r)
        \/ handleCreateAsset_Save(r)
        \/ handleCreateAsset_Log(r)
        \/ handleCreateAsset_Logged(r)
        \/ handleUpdateAsset_Start(r)
        \/ handleUpdateAsset_Read(r)
        \/ handleUpdateAsset_Save(r)
        \/ handleUpdateAsset_Log(r)
        \/ handleUpdateAsset_Logged(r)
        \/ handleDeleteAsset_Start(r)
        \/ handleDeleteAsset_Delete(r)
        \/ handleDeleteAsset_Log(r)
        \/ handleDeleteAsset_Logged(r)
        \/ Finish(r)

Spec == Init /\ [][Next]_vars

\* the steps of a request that run once the call it awaits has returned: a
\* call of the store, of the factory or of the log.  The answers of the
\* connector are not among them.
Continue(r) ==
    \/ handleRetrieveConsumption_Resolve(r)
    \/ handleRetrieveConsumption_Retrieve(r)
    \/ handleRetrieveConsumption_Respond(r)
    \/ handleCheckAssetConnection_Check(r)
    \/ handleCheckAssetConnection_Logged(r)
    \/ handleGetAssetConsumption_Query(r)
    \/ handleGetAssetConsumption_Respond(r)
    \/ handleCreateAsset_Save(r)
    \/ handleCreateAsset_Log(r)
    \/ handleCreateAsset_Logged(r)
    \/ handleUpdateAsset_Read(r)
    \/ handleUpdateAsset_Save(r)
    \/ handleUpdateAsset_Log(r)
    \/ handleUpdateAsset_Logged(r)
    \/ handleDeleteAsset_Delete(r)
    \/ handleDeleteAsset_Log(r)
    \/ handleDeleteAsset_Logged(r)

\* the event loop runs every continuation that is ready: a request whose
\* awaited call has returned goes on.  Nothing makes a connector answer.
FairSpec == Spec /\ \A r \in Reqs : WF_vars(Continue(r))

(* ---------------- the claims ---------------- *)

IsRetrieve(s) == s.kind = "RC"
IsCheck(s) == s.kind = "CC"
IsQuery(s) == s.kind = "GAC"

\* the stored live-state group of an asset and its other stored fields; Null
\* when the store holds no asset of the id
StoredLive(store, id) == IF id \in DOMAIN store THEN LiveOf(store[id]) ELSE Null
StoredNonLive(store, id) == IF id \in DOMAIN store THEN NonLiveOf(store[id]) ELSE Null

\* C1: a retrieval request that loaded an asset with dynamicAsset = false
\* ends with the "not dynamic" error; it sends no response and calls neither
\* getAssetImpl, retrieveConsumptions nor saveAsset.
C1_NonDynamicFails ==
    \A r \in Reqs :
        LET s == req[r]
        IN (IsRetrieve(s) /\ s.loaded # Null /\ ~s.loaded.dynamicAsset) =>
              /\ s.pc = "rc_got" \/ (s.pc = "done" /\ s.error = NotDynamic)
              /\ s.response = NoResponse
              /\ ~HasCalled(s, "getAssetImpl")
              /\ ~HasCalled(s, "retrieveConsumptions")
              /\ ~HasCalled(s, "saveAsset")
              /\ s.saved = Null

C1_Witness ==
    \E r \in Reqs :
        /\ IsRetrieve(req[r]) /\ req[r].pc = "done"
        /\ req[r].loaded # Null /\ ~req[r].loaded.dynamicAsset
        /\ req[r].error = NotDynamic

\* C2: once the probe of a resolved connector has thrown, the connection
\* check never ends with an error: it is waiting for Logging.logError, or it
\* has logged and answered connectionIsValid = false.
C2_ProbeFailureNeverEscapes ==
    \A r \in Reqs :
        LET s == req[r]
        IN (IsCheck(s) /\ HasCalled(s, ThrewMark("checkConnection"))) =>
              \/ s.pc = "cc_logging" /\ s.error = NoError
              \/ /\ s.pc = "done"
                 /\ s.error = NoError
                 /\ s.response = ConnectionResponse(FALSE)
                 /\ HasCalled(s, "logError")

\* C3: a connection check or a retrieval for which getAssetImpl returned no
\* connector ends with the "not configured" error; it sends no response and
\* calls neither checkConnection, retrieveConsumptions nor saveAsset.
C3_NoConnectorNotConfigured ==
    \A r \in Reqs :
        LET s == req[r]
        IN ((IsCheck(s) \/ IsRetrieve(s)) /\ HasCalled(s, "getAssetImpl")
                /\ s.assetImpl = Null) =>
              /\ s.pc \in {"cc_impl", "rc_impl"}
                    \/ (s.pc = "done" /\ s.error = NotConfigured)
              /\ s.response = NoResponse
              /\ ~HasCalled(s, "checkConnection")
              /\ ~HasCalled(s, "retrieveConsumptions")
              /\ ~HasCalled(s, "saveAsset")

C3_Witness ==
    \E r, q \in Reqs :
        /\ IsCheck(req[r]) /\ req[r].pc = "done" /\ req[r].error = NotConfigured
        /\ HasCalled(req[r], "getAssetImpl")
        /\ IsRetrieve(req[q]) /\ req[q].pc = "done" /\ req[q].error = NotConfigured
        /\ HasCalled(req[q], "getAssetImpl")

\* the error the validations of the historical query give when they run in
\* the order existence, presence of both dates, order of the dates
ExpectedQueryError(asset, startDate, endDate) ==
    IF asset = Null THEN ObjectDoesNotExist
    ELSE IF ~(startDate.present /\ endDate.present) THEN DatesMissing
    ELSE IF startDate.time > endDate.time THEN StartAfterEnd
    ELSE NoError

\* C4: a historical query on an existing asset with both dates and the start
\* after the end ends with the "start after end" error and never calls
\* getAssetConsumptions; the store is queried only for an existing asset with
\* both dates and start <= end, and a query that fails fails with the error
\* of the first validation that does not pass.
C4_StartAfterEndRejected ==
    \A r \in Reqs :
        LET s == req[r]
        IN (IsQuery(s) /\ HasCalled(s, "getAsset")) =>
              /\ (s.asset # Null /\ s.startDate.present /\ s.endDate.present
                      /\ s.startDate.time > s.endDate.time) =>
                    /\ s.pc = "gac_got" \/ (s.pc = "done" /\ s.error = StartAfterEnd)
                    /\ s.response = NoResponse
                    /\ ~HasCalled(s, "getAssetConsumptions")
              /\ HasCalled(s, "getAssetConsumptions") =>
                    /\ s.asset # Null
                    /\ s.startDate.present /\ s.endDate.present
                    /\ s.startDate.time <= s.endDate.time
              /\ s.pc # "gac_got" =>
                    s.error = ExpectedQueryError(s.asset, s.startDate, s.endDate)

C4_Witness ==
    \E r \in Reqs :
        /\ IsQuery(req[r]) /\ req[r].pc = "done"
        /\ req[r].asset # Null
        /\ req[r].startDate.present /\ req[r].endDate.present
        /\ req[r].startDate.time > req[r].endDate.time
        /\ req[r].error = StartAfterEnd

\* C5: the asset a retrieval hands to saveAsset has the fields of the asset
\* getAsset returned and the live-state fields, no other, and every field
\* outside the live-state group has the value getAsset returned.
C5_MergeKeepsNonLiveFields ==
    \A r \in Reqs :
        LET s == req[r]
        IN (IsRetrieve(s) /\ s.saved # Null) =>
              /\ DOMAIN s.saved = (DOMAIN s.loaded) \cup LiveFields
              /\ NonLiveOf(s.saved) = NonLiveOf(s.loaded)

C5_Witness ==
    \E r \in Reqs :
        /\ IsRetrieve(req[r]) /\ req[r].pc = "done" /\ req[r].saved # Null
        /\ DOMAIN req[r].saved # DOMAIN req[r].loaded
        /\ req[r].loaded.name # "n0"

\* C6: a retrieval whose connector returned one sample or more hands to
\* saveAsset, exactly once, the asset with the live-state group of the first
\* sample, and right after that save the stored live-state group is that of
\* the first sample; the request ends with the success response.
C6_FirstSampleMergedAndSavedOnce ==
    \A r \in Reqs :
        LET s == req[r]
        IN (IsRetrieve(s) /\ s.pc \in {"rc_saved", "done"} /\ Len(s.consumptions) >= 1) =>
              /\ s.saved # Null
              /\ LiveOf(s.saved) = s.consumptions[1]
              /\ LiveOf(s.stored) = s.consumptions[1]
              /\ CountCalls(s, "saveAsset") = 1
              /\ s.error = NoError
              /\ s.pc = "done" => s.response = REST_RESPONSE_SUCCESS

C6_Witness ==
    \E r \in Reqs :
        /\ IsRetrieve(req[r]) /\ req[r].pc = "done"
        /\ Len(req[r].consumptions) >= 2
        /\ req[r].consumptions[1] # req[r].consumptions[Len(req[r].consumptions)]
        /\ StoredLive(db, req[r].id) = req[r].consumptions[1]
        /\ CountCalls(req[r], "saveAsset") = 1

\* C7: a retrieval whose connector returned the empty sequence merges
\* nothing and never calls saveAsset, so it writes nothing to the store, and
\* it ends with the success response and no error.
C7_EmptyRetrievalSavesNothing ==
    \A r \in Reqs :
        LET s == req[r]
        IN (IsRetrieve(s) /\ HasCalled(s, "retrieveConsumptions")
                /\ ~HasCalled(s, ThrewMark("retrieveConsumptions"))
                /\ s.pc # "rc_waiting" /\ s.consumptions = <<>>) =>
              /\ s.pc = "done"
              /\ ~HasCalled(s, "saveAsset")
              /\ s.saved = Null /\ s.stored = Null
              /\ s.asset = s.loaded
              /\ s.error = NoError
              /\ s.pc = "done" => s.response = REST_RESPONSE_SUCCESS

C7_Witness ==
    \E r \in Reqs :
        /\ IsRetrieve(req[r]) /\ req[r].pc = "done"
        /\ HasCalled(req[r], "retrieveConsumptions")
        /\ ~HasCalled(req[r], ThrewMark("retrieveConsumptions"))
        /\ req[r].consumptions = <<>>
        /\ req[r].response = REST_RESPONSE_SUCCESS

\* C8: in every reachable state the stored live-state group of every asset
\* is the initial group (no live-state field) or the whole group of one
\* sample.
C8_LiveGroupFromOneSample ==
    \A id \in DOMAIN db : LiveOf(db[id]) \in {InitialLive} \cup Samples

C8_Witness ==
    \E r \in Reqs :
        /\ IsRetrieve(req[r]) /\ req[r].pc = "rc_saved"
        /\ LiveOf(req[r].loaded) \in Samples
        /\ LiveOf(req[r].saved) # LiveOf(req[r].loaded)
        /\ StoredLive(db, req[r].id) = LiveOf(req[r].saved)

\* C9: on an asset the store holds, the save of an update leaves the stored
\* live-state group as it was right before that save, and the save of a
\* merge leaves the stored fields outside the live-state group as they were
\* right before that save.
C9_SavesKeepTheOtherGroup ==
    [][\A r \in Reqs :
          /\ (req[r].pc = "ua_got" /\ req'[r].pc = "ua_saved"
                  /\ req[r].id \in DOMAIN db) =>
                StoredLive(db', req[r].id) = StoredLive(db, req[r].id)
          /\ (req[r].pc = "rc_waiting" /\ req'[r].pc = "rc_saved"
                  /\ req[r].id \in DOMAIN db) =>
                StoredNonLive(db', req[r].id) = StoredNonLive(db, req[r].id)]_vars

\* C10: a retrieval whose connector call threw ends with the error thrown;
\* it never calls saveAsset, writes nothing to the store and sends no
\* response.
C10_RetrievalFailurePropagates ==
    \A r \in Reqs :
        LET s == req[r]
        IN (IsRetrieve(s) /\ HasCalled(s, ThrewMark("retrieveConsumptions"))) =>
              /\ s.pc = "done"
              /\ s.error = ConnectionFailure
              /\ s.response = NoResponse
              /\ ~HasCalled(s, "saveAsset")
              /\ s.saved = Null /\ s.stored = Null

C10_Witness ==
    \E r \in Reqs :
        /\ IsRetrieve(req[r]) /\ req[r].pc = "done"
        /\ HasCalled(req[r], ThrewMark("retrieveConsumptions"))
        /\ req[r].error = ConnectionFailure

\* C11: the save of a merge is unconditional, so the last save wins: when
\* the connector of a retrieval answers with one sample or more, the
\* retrieval saves, and the stored live-state group becomes the group of its
\* own first sample, whatever the store held and whatever the other requests
\* read, retrieved or saved in between.  (The witness is the lost update: two
\* retrievals read the same stored asset; the one that called its connector
\* first gets its answer last and so saves last, and the stored group is its
\* sample, not the sample of the retrieval that was made later.)
C11_LastSaveWins ==
    [][\A r \in Reqs :
          (req[r].pc = "rc_waiting" /\ req'[r].pc # "rc_waiting"
              /\ Len(req'[r].consumptions) >= 1) =>
                /\ req'[r].pc = "rc_saved"
                /\ StoredLive(db', req[r].id) = req'[r].consumptions[1]]_vars

C11_Witness ==
    \E r, q \in Reqs :
        /\ r # q
        /\ IsRetrieve(req[r]) /\ IsRetrieve(req[q]) /\ req[r].id = req[q].id
        /\ r \in req[q].retrievedAfter
        /\ req[q].pc \in {"rc_saved", "done"} /\ req[q].stored # Null
        /\ req[r].pc = "rc_saved"
        /\ req[r].loaded = req[q].loaded
        /\ LiveOf(req[q].stored) = req[q].consumptions[1]
        /\ req[q].consumptions[1] # req[r].consumptions[1]
        /\ StoredLive(db, req[r].id) = req[r].consumptions[1]

\* the request has called the connector: it waits for the answer, or the
\* call returned or threw
ReachedConnector(s) ==
    \/ HasCalled(s, "retrieveConsumptions")
    \/ HasCalled(s, "checkConnection")

\* C12: every connection check and every retrieval that has called the
\* connector eventually ends, with a response or an error.
C12_ConnectorCallCompletes ==
    \A r \in Reqs : ReachedConnector(req[r]) ~> (req[r].pc = "done")

====
